---- MODULE Spec2Model ----
(***************************************************************************)
(* Verification model of the exchange back-office front end:               *)
(*   - the Currency Grid   (src/unnamed/part_001, CurrencyGridPage)        *)
(*   - the Exchange Form   (src/src/SelingPage.tsx, CurrencyExchangePage)  *)
(*   - the text <-> number conversions both pages rest on.                 *)
(*                                                                         *)
(* Texts typed by the user are sequences of one-character strings, so that *)
(* trim(), replace(), toUpperCase(), Number(), String() and toFixed() are  *)
(* modelled by what they do to the characters.  A JavaScript number is     *)
(* either NaN or a decimal [n |-> mantissa, d |-> fraction digits] with    *)
(* value n / 10^d, kept normalised (no trailing zero in the fraction), so  *)
(* that equality of records is equality of values.  The character set of   *)
(* the model has no sign, no exponent letter and no radix prefix; within   *)
(* it the grammar of Number() below is the whole StringToNumber grammar.   *)
(***************************************************************************)
EXTENDS Integers, Sequences, FiniteSets, TLC

VARIABLES
    \* ---- text parsing harness (parseNumber, part_001:72-77)
    ptext,          \* the text handed to parseNumber
    pres,           \* its result, or Unparsed
    \* ---- Exchange Form (SelingPage.tsx)
    list,           \* CurrencyDto[] loaded from the service (sorted by symbol)
    loading,        \* currency list request in flight
    error,          \* load error message or Nil
    exchanges,      \* ExchangeRow[]
    submits,        \* POST /api/exchange requests in flight (payload rows)
    posted,         \* payload rows handed to fetch in the last step, <<>> if none
    answered,       \* body of the submit response handled in the last step, or Null
    formOp,         \* name of the handler that ran in the last step
    \* ---- Currency Grid (part_001)
    rows,           \* CurrencyRow[]
    gridLoading,    \* loading
    gridError,      \* error message or Nil
    form,           \* add-form texts
    editingId,      \* id of the row in edit mode or Nil
    editDraft,      \* EditDraft or Null
    pending,        \* network requests in flight
    calls,          \* number of fetch() calls issued so far
    alert,          \* message passed to window.alert in the last step, or Nil
    sinceEdit,      \* rows and calls at startEdit, while only the draft changed since
    fetched,        \* list handed over by the list response handled in the last step, or Null
    gridOp,         \* name of the handler that ran in the last step
    \* ---- Login Shell (part_000)
    isLogin,        \* sign-in layout (TRUE) or sign-up layout (FALSE)
    showPassword,   \* password shown as text
    formData,       \* email, password and name texts
    loginRequests,  \* number of network requests the page issued
    loginOp         \* name of the handler that ran in the last step

parseVars == <<ptext, pres>>
formVars  == <<list, loading, error, exchanges, submits, posted, answered, formOp>>
gridVars  == <<rows, gridLoading, gridError, form, editingId, editDraft,
               pending, calls, alert, sinceEdit, fetched, gridOp>>
loginVars == <<isLogin, showPassword, formData, loginRequests, loginOp>>
vars      == <<parseVars, formVars, gridVars, loginVars>>

\* null / undefined where a record or a number is expected
Null == [null |-> TRUE]
\* null where a string is expected (error, editingId, alert message)
Nil == "null"
NaN == [nan |-> TRUE]
Unparsed == [unparsed |-> TRUE]

\* ------------------------------------------------------------------------
\* Characters and texts
\* ------------------------------------------------------------------------
Digits == {"0", "1", "2", "3", "4", "5", "6", "7", "8", "9"}

DigitVal == [c \in Digits |->
    CASE c = "0" -> 0 [] c = "1" -> 1 [] c = "2" -> 2 [] c = "3" -> 3
      [] c = "4" -> 4 [] c = "5" -> 5 [] c = "6" -> 6 [] c = "7" -> 7
      [] c = "8" -> 8 [] c = "9" -> 9]

DigitChar == <<"0", "1", "2", "3", "4", "5", "6", "7", "8", "9">>

IsWhite(c) == c = " "

RECURSIVE TrimStart(_)
TrimStart(t) ==
    IF t # <<>> /\ IsWhite(Head(t)) THEN TrimStart(Tail(t)) ELSE t

RECURSIVE TrimEnd(_)
TrimEnd(t) ==
    IF t # <<>> /\ IsWhite(t[Len(t)]) THEN TrimEnd(SubSeq(t, 1, Len(t) - 1)) ELSE t

\* String.prototype.trim
Trim(t) == TrimEnd(TrimStart(t))

\* value.replace(/,/g, "."): every comma
RECURSIVE ReplaceAllCommas(_)
ReplaceAllCommas(t) ==
    IF t = <<>> THEN <<>>
    ELSE <<IF Head(t) = "," THEN "." ELSE Head(t)>> \o ReplaceAllCommas(Tail(t))

\* s.replace(",", "."): a string pattern replaces the first occurrence only
RECURSIVE ReplaceFirstComma(_)
ReplaceFirstComma(t) ==
    IF t = <<>> THEN <<>>
    ELSE IF Head(t) = "," THEN <<".">> \o Tail(t)
    ELSE <<Head(t)>> \o ReplaceFirstComma(Tail(t))

UpperOf(c) ==
    CASE c = "e" -> "E" [] c = "u" -> "U" [] c = "r" -> "R" [] c = "o" -> "O"
      [] c = "a" -> "A" [] OTHER -> c

\* String.prototype.toUpperCase
RECURSIVE ToUpperCase(_)
ToUpperCase(t) ==
    IF t = <<>> THEN <<>> ELSE <<UpperOf(Head(t))>> \o ToUpperCase(Tail(t))

\* ------------------------------------------------------------------------
\* Numbers
\* ------------------------------------------------------------------------
RECURSIVE Pow10(_)
Pow10(k) == IF k = 0 THEN 1 ELSE 10 * Pow10(k - 1)

RECURSIVE Norm(_, _)
Norm(n, d) ==
    IF d > 0 /\ n % 10 = 0 THEN Norm(n \div 10, d - 1) ELSE [n |-> n, d |-> d]

Zero == Norm(0, 0)

IsFinite(x) == x # NaN /\ x # Null

RECURSIVE IntOf(_)
IntOf(ds) ==
    IF ds = <<>> THEN 0
    ELSE 10 * IntOf(SubSeq(ds, 1, Len(ds) - 1)) + DigitVal[ds[Len(ds)]]

\* Number(text): StringToNumber.  Blanks are trimmed, the empty text is 0,
\* a decimal literal (digits, digits.digits, digits., .digits) is its value
\* and anything else is NaN.
Number(t) ==
    LET s == Trim(t)
        dots == {i \in 1..Len(s) : s[i] = "."}
        digs == SelectSeq(s, LAMBDA c : c \in Digits)
    IN  IF s = <<>> THEN Zero
        ELSE IF /\ \A i \in 1..Len(s) : s[i] \in Digits \/ s[i] = "."
                /\ Cardinality(dots) <= 1
                /\ digs # <<>>
             THEN Norm(IntOf(digs),
                       IF dots = {} THEN 0 ELSE Len(s) - (CHOOSE i \in dots : TRUE))
             ELSE NaN

Times(x, y) == Norm(x.n * y.n, x.d + y.d)

RECURSIVE NatToStr(_)
NatToStr(n) ==
    IF n < 10 THEN <<DigitChar[n + 1]>>
    ELSE Append(NatToStr(n \div 10), DigitChar[(n % 10) + 1])

\* the last k decimal digits of n, zero padded
RECURSIVE FracDigits(_, _)
FracDigits(n, k) ==
    IF k = 0 THEN <<>>
    ELSE Append(FracDigits(n \div 10, k - 1), DigitChar[(n % 10) + 1])

\* String(number): shortest decimal notation (no exponent in the modelled range)
String(x) ==
    IF x.d = 0 THEN NatToStr(x.n)
    ELSE NatToStr(x.n \div Pow10(x.d)) \o <<".">> \o FracDigits(x.n % Pow10(x.d), x.d)

\* Number.prototype.toFixed(2).  The hundredths nearest to x; when x lies
\* exactly half way in decimal, the binary double holding the product may
\* lie on either side, so the direction is the input `up`.
ToFixed2(x, up) ==
    LET cents ==
            IF x.d <= 2 THEN x.n * Pow10(2 - x.d)
            ELSE LET unit == Pow10(x.d - 2)
                     q == x.n \div unit
                     r == x.n % unit
                 IN  IF 2 * r > unit \/ (2 * r = unit /\ up) THEN q + 1 ELSE q
    IN  NatToStr(cents \div 100) \o <<".">> \o FracDigits(cents % 100, 2)

\* ------------------------------------------------------------------------
\* Bounds of the model
\* ------------------------------------------------------------------------
\* longest text handed to parseNumber
MaxLen == 3
\* largest line-item id the Exchange Form may allocate
MaxId == 2
\* POST /api/exchange requests in flight at once
MaxSubmits == 1
\* fetch() calls the Currency Grid may issue in one behaviour
MaxCalls == 2

\* ------------------------------------------------------------------------
\* parseNumber (Currency Grid helper)
\* ------------------------------------------------------------------------
\* a parse without the blank-text test
parseNumber_NoBlankTest(value) ==
    LET num == Number(ReplaceAllCommas(value))
    IN  IF IsFinite(num) THEN num ELSE Null

\* function parseNumber(value: string): number | null
parseNumber(value) ==
    IF Trim(value) = <<>> THEN Null
    ELSE LET normalized == ReplaceAllCommas(value)
             num == Number(normalized)
         IN  IF IsFinite(num) THEN num ELSE Null

ParseChars == {"0", "1", "5", ".", ",", " ", "a"}

RECURSIVE Texts(_)
Texts(k) ==
    IF k = 0 THEN {<<>>}
    ELSE Texts(k - 1) \cup {Append(t, c) : t \in Texts(k - 1), c \in ParseChars}

ParseInit ==
    /\ ptext \in Texts(MaxLen)
    /\ pres = Unparsed

ParseIdle ==
    /\ ptext = <<>>
    /\ pres = Unparsed

\* one call of parseNumber on the text
ParseText ==
    /\ pres = Unparsed
    /\ pres' = parseNumber(ptext)
    /\ UNCHANGED <<ptext, formVars, gridVars>>
    /\ UNCHANGED loginVars

\* ------------------------------------------------------------------------
\* Exchange Form (CurrencyExchangePage)
\* ------------------------------------------------------------------------
\* the other setting of the switch, rating with the buy price
RATE_SOURCE_Buy == "buy"

RATE_SOURCE == "sell"

T_USD == <<"U", "S", "D">>
T_RON == <<"R", "O", "N">>
T_EUR == <<"E", "U", "R">>

\* CurrencyDto records the service may return (name, fixing, updatedAt are
\* not read by the form)
USD == [id |-> "id-usd", symbol |-> T_USD, buyPrice |-> Norm(44, 1), sellPrice |-> Norm(45, 1)]
RON == [id |-> "id-ron", symbol |-> T_RON, buyPrice |-> Norm(1, 0), sellPrice |-> Norm(1, 0)]
EUR == [id |-> "id-eur", symbol |-> T_EUR, buyPrice |-> Norm(495, 2), sellPrice |-> Norm(502, 2)]

\* bodies GET /api/currencies may answer with, in the service's order
ServerLists == {<<>>, <<USD, RON>>, <<RON, EUR>>, <<USD, EUR>>}

CharCode(c) ==
    CASE c = "D" -> 68 [] c = "E" -> 69 [] c = "N" -> 78 [] c = "O" -> 79
      [] c = "R" -> 82 [] c = "S" -> 83 [] c = "U" -> 85 [] OTHER -> 0

\* a.localeCompare(b) < 0 on upper-case ASCII symbols
RECURSIVE Before(_, _)
Before(a, b) ==
    IF b = <<>> THEN FALSE
    ELSE IF a = <<>> THEN TRUE
    ELSE IF Head(a) # Head(b) THEN CharCode(Head(a)) < CharCode(Head(b))
    ELSE Before(Tail(a), Tail(b))

RECURSIVE Insert(_, _)
Insert(sorted, c) ==
    IF sorted = <<>> THEN <<c>>
    ELSE IF Before(c.symbol, Head(sorted).symbol) THEN <<c>> \o sorted
    ELSE <<Head(sorted)>> \o Insert(Tail(sorted), c)

\* data.sort((a, b) => a.symbol.localeCompare(b.symbol)): stable
RECURSIVE SortBySymbol(_)
SortBySymbol(data) ==
    IF data = <<>> THEN <<>>
    ELSE Insert(SortBySymbol(SubSeq(data, 1, Len(data) - 1)), data[Len(data)])

\* a lookup that falls back to the last currency of the list
FindOrFirst_Last(l, sym) ==
    IF \E i \in 1..Len(l) : l[i].symbol = sym
    THEN l[CHOOSE i \in 1..Len(l) :
               l[i].symbol = sym /\ \A j \in 1..(i - 1) : l[j].symbol # sym]
    ELSE IF l # <<>> THEN l[Len(l)] ELSE Null

\* list.find((c) => c.symbol === sym) ?? list[0]; Null when the list is empty
FindOrFirst(l, sym) ==
    IF \E i \in 1..Len(l) : l[i].symbol = sym
    THEN l[CHOOSE i \in 1..Len(l) :
               l[i].symbol = sym /\ \A j \in 1..(i - 1) : l[j].symbol # sym]
    ELSE IF l # <<>> THEN l[1] ELSE Null

\* byId.get(id): the Map built from list; Null when absent
ById(l, id) ==
    IF \E i \in 1..Len(l) : l[i].id = id
    THEN l[CHOOSE i \in 1..Len(l) :
               l[i].id = id /\ \A j \in (i + 1)..Len(l) : l[j].id # id]
    ELSE Null

\* RATE_SOURCE === "sell" ? picked.sellPrice : picked.buyPrice
AutoRate(picked) ==
    IF RATE_SOURCE = "sell" THEN picked.sellPrice ELSE picked.buyPrice

\* function computeConverted(amountStr, rateStr): string
computeConverted(amountStr, rateStr, up) ==
    LET amt == Number(ReplaceFirstComma(amountStr))
        rate == Number(ReplaceFirstComma(rateStr))
    IN  IF ~IsFinite(amt) \/ ~IsFinite(rate) THEN <<>>
        ELSE ToFixed2(Times(amt, rate), up)

\* const toDec = (s: string) => ...
toDec(s) ==
    LET n == Number(ReplaceFirstComma(s))
    IN  IF IsFinite(n) THEN n ELSE Null

InitialRow ==
    [id |-> 1, clientAmount |-> <<>>, clientCurrencyId |-> "", exchangeRate |-> <<>>,
     targetCurrencyId |-> "", convertedAmount |-> <<>>]

\* a seeding that writes the default rate over the one already there
SeedRow_Overwrites(row, l, up) ==
    LET usd == FindOrFirst(l, T_USD)
        ron == FindOrFirst(l, T_RON)
        from == IF row.clientCurrencyId # "" THEN row.clientCurrencyId ELSE usd.id
        to == IF row.targetCurrencyId # "" THEN row.targetCurrencyId ELSE ron.id
        picked == ById(l, from)
        rate == IF picked # Null THEN String(AutoRate(picked)) ELSE <<>>
    IN  [row EXCEPT !.clientCurrencyId = from,
                    !.targetCurrencyId = to,
                    !.exchangeRate = rate,
                    !.convertedAmount = computeConverted(row.clientAmount, rate, up)]

\* the row the seeding effect maps `row` to
SeedRow(row, l, up) ==
    LET usd == FindOrFirst(l, T_USD)
        ron == FindOrFirst(l, T_RON)
        from == IF row.clientCurrencyId # "" THEN row.clientCurrencyId ELSE usd.id
        to == IF row.targetCurrencyId # "" THEN row.targetCurrencyId ELSE ron.id
        picked == ById(l, from)
        rate == IF row.exchangeRate # <<>> THEN row.exchangeRate
                ELSE IF picked # Null THEN String(AutoRate(picked)) ELSE <<>>
    IN  [row EXCEPT !.clientCurrencyId = from,
                    !.targetCurrencyId = to,
                    !.exchangeRate = rate,
                    !.convertedAmount = computeConverted(row.clientAmount, rate, up)]

RECURSIVE MapSeed(_, _, _)
MapSeed(prev, l, ups) ==
    IF prev = <<>> THEN <<>>
    ELSE <<SeedRow(Head(prev), l, Head(ups))>> \o MapSeed(Tail(prev), l, Tail(ups))

\* useEffect(() => { if (list.length === 0) return; setExchanges(prev => prev.map(...)) })
SeedRows(prev, l, ups) ==
    IF Len(l) = 0 THEN prev ELSE MapSeed(prev, l, ups)

RECURSIVE BoolSeqs(_)
BoolSeqs(k) ==
    IF k = 0 THEN {<<>>}
    ELSE {Append(s, b) : s \in BoolSeqs(k - 1), b \in BOOLEAN}

\* a field change that refreshes the rate from the source on every change
ChangeRow_Rerates(row, l, field, value, up) ==
    LET set == CASE field = "clientAmount" -> [row EXCEPT !.clientAmount = value]
                 [] field = "clientCurrencyId" -> [row EXCEPT !.clientCurrencyId = value]
                 [] field = "targetCurrencyId" -> [row EXCEPT !.targetCurrencyId = value]
                 [] field = "exchangeRate" -> [row EXCEPT !.exchangeRate = value]
        picked == ById(l, set.clientCurrencyId)
        rated == IF field \in {"clientCurrencyId", "clientAmount"} /\ picked # Null
                 THEN [set EXCEPT !.exchangeRate = String(AutoRate(picked))]
                 ELSE set
    IN  IF field \in {"clientAmount", "exchangeRate", "clientCurrencyId"}
        THEN [rated EXCEPT !.convertedAmount =
                  computeConverted(rated.clientAmount, rated.exchangeRate, up)]
        ELSE rated

\* the row handleExchangeChange maps the row with the given id to
ChangeRow(row, l, field, value, up) ==
    LET set == CASE field = "clientAmount" -> [row EXCEPT !.clientAmount = value]
                 [] field = "clientCurrencyId" -> [row EXCEPT !.clientCurrencyId = value]
                 [] field = "targetCurrencyId" -> [row EXCEPT !.targetCurrencyId = value]
                 [] field = "exchangeRate" -> [row EXCEPT !.exchangeRate = value]
        picked == ById(l, value)
        rated == IF field = "clientCurrencyId" /\ picked # Null
                 THEN [set EXCEPT !.exchangeRate = String(AutoRate(picked))]
                 ELSE set
    IN  IF field \in {"clientAmount", "exchangeRate", "clientCurrencyId"}
        THEN [rated EXCEPT !.convertedAmount =
                  computeConverted(rated.clientAmount, rated.exchangeRate, up)]
        ELSE rated

\* function handleExchangeChange(id, field, value): the new exchanges
RECURSIVE handleExchangeChange(_, _, _, _, _, _)
handleExchangeChange(prev, l, id, field, value, up) ==
    IF prev = <<>> THEN <<>>
    ELSE <<IF Head(prev).id # id THEN Head(prev)
           ELSE ChangeRow(Head(prev), l, field, value, up)>>
         \o handleExchangeChange(Tail(prev), l, id, field, value, up)

RECURSIVE MaxOf(_)
MaxOf(ids) ==
    IF Len(ids) = 1 THEN ids[1]
    ELSE LET m == MaxOf(Tail(ids)) IN IF ids[1] > m THEN ids[1] ELSE m

RECURSIVE IdsOf(_)
IdsOf(rs) == IF rs = <<>> THEN <<>> ELSE <<Head(rs).id>> \o IdsOf(Tail(rs))

\* an allocation by row count instead of by largest id
NextId_ByCount(rs) == Len(rs) + 1

\* const nextId = exchanges.length ? Math.max(...exchanges.map((r) => r.id)) + 1 : 1
NextId(rs) == IF Len(rs) # 0 THEN MaxOf(IdsOf(rs)) + 1 ELSE 1

\* the row addExchange appends
NewRow(rs, l) ==
    LET usd == FindOrFirst(l, T_USD)
        ron == FindOrFirst(l, T_RON)
    IN  [id |-> NextId(rs),
         clientAmount |-> <<>>,
         clientCurrencyId |-> IF usd # Null THEN usd.id ELSE "",
         exchangeRate |-> IF usd # Null THEN String(AutoRate(usd)) ELSE <<>>,
         targetCurrencyId |-> IF ron # Null THEN ron.id ELSE "",
         convertedAmount |-> <<>>]

\* a removal without the last-row guard
removeExchange_Unguarded(prev, id) == SelectSeq(prev, LAMBDA e : e.id # id)

\* prev.length > 1 ? prev.filter((e) => e.id !== id) : prev
removeExchange(prev, id) ==
    IF Len(prev) > 1 THEN SelectSeq(prev, LAMBDA e : e.id # id) ELSE prev

\* the rows of the payload handleSubmit builds
RECURSIVE PayloadRows(_)
PayloadRows(rs) ==
    IF rs = <<>> THEN <<>>
    ELSE <<[amount |-> toDec(Head(rs).clientAmount),
            rate |-> toDec(Head(rs).exchangeRate),
            fromCurrencyId |-> Head(rs).clientCurrencyId,
            toCurrencyId |-> Head(rs).targetCurrencyId]>> \o PayloadRows(Tail(rs))

\* a merge that blanks the converted amount the response does not provide
RECURSIVE MergeConverted_Blanks(_, _)
MergeConverted_Blanks(prev, rs) ==
    IF prev = <<>> THEN <<>>
    ELSE <<IF rs # <<>> /\ "convertedAmount" \in DOMAIN Head(rs)
           THEN [Head(prev) EXCEPT !.convertedAmount = Head(rs).convertedAmount]
           ELSE [Head(prev) EXCEPT !.convertedAmount = <<>>]>>
         \o MergeConverted_Blanks(Tail(prev), IF rs = <<>> THEN <<>> ELSE Tail(rs))

\* prev.map((row, i) => ({...row, convertedAmount: rows[i]?.convertedAmount ?? row.convertedAmount}))
RECURSIVE MergeConverted(_, _)
MergeConverted(prev, rs) ==
    IF prev = <<>> THEN <<>>
    ELSE <<IF rs # <<>> /\ "convertedAmount" \in DOMAIN Head(rs)
           THEN [Head(prev) EXCEPT !.convertedAmount = Head(rs).convertedAmount]
           ELSE Head(prev)>>
         \o MergeConverted(Tail(prev), IF rs = <<>> THEN <<>> ELSE Tail(rs))

\* texts typed into the amount and rate inputs
AmountInputs == {<<>>, <<"1", "0", "0">>, <<"0", ",", "3">>}
RateInputs == {<<"0", ".", "2", "5">>, <<"x">>}

\* the <option> values of the "From" select: list.map((c) => c.id)
RECURSIVE OptionIds(_)
OptionIds(l) == IF l = <<>> THEN {} ELSE {Head(l).id} \cup OptionIds(Tail(l))

\* bodies a successful POST /api/exchange may answer with
Recalc == [convertedAmount |-> <<"9", ".", "9", "9">>]
Echo == [fromCurrencyId |-> "id-usd"]
SubmitBodies ==
    {[message |-> "ok"], [rows |-> <<Recalc, Echo>>], [rows |-> <<Echo, Recalc>>]}

FormInit ==
    /\ list = <<>>
    /\ loading = TRUE
    /\ error = Nil
    /\ exchanges = <<InitialRow>>
    /\ submits = 0
    /\ posted = <<>>
    /\ answered = Null
    /\ formOp = "mount"

\* fetchCurrencies resolved: sort, setList, then the seeding effect runs
LoadOk(data, ups) ==
    /\ loading
    /\ list' = SortBySymbol(data)
    /\ exchanges' = SeedRows(exchanges, list', ups)
    /\ loading' = FALSE
    /\ posted' = <<>>
    /\ formOp' = "loadOk"
    /\ UNCHANGED <<error, submits, parseVars, gridVars>>
    /\ answered' = Null
    /\ UNCHANGED loginVars

\* fetchCurrencies rejected
LoadFailed ==
    /\ loading
    /\ error' = "Failed to fetch currencies: Internal Server Error"
    /\ loading' = FALSE
    /\ posted' = <<>>
    /\ formOp' = "loadFailed"
    /\ UNCHANGED <<list, exchanges, submits, parseVars, gridVars>>
    /\ answered' = Null
    /\ UNCHANGED loginVars

HandleExchangeChange(id, field, value, up) ==
    /\ exchanges' = handleExchangeChange(exchanges, list, id, field, value, up)
    /\ posted' = <<>>
    /\ formOp' = field
    /\ UNCHANGED <<list, loading, error, submits, parseVars, gridVars>>
    /\ answered' = Null
    /\ UNCHANGED loginVars

\* the "Add" button is disabled while loading or without currencies
AddExchange ==
    /\ ~(loading \/ Len(list) = 0)
    /\ NextId(exchanges) <= MaxId
    /\ exchanges' = Append(exchanges, NewRow(exchanges, list))
    /\ posted' = <<>>
    /\ formOp' = "addExchange"
    /\ UNCHANGED <<list, loading, error, submits, parseVars, gridVars>>
    /\ answered' = Null
    /\ UNCHANGED loginVars

\* the handler keeps its own guard for the last row (the button is disabled
\* then); both outcomes of the guard are exercised
RemoveExchange(id) ==
    /\ exchanges' = removeExchange(exchanges, id)
    /\ posted' = <<>>
    /\ formOp' = IF Len(exchanges) > 1 THEN "removeExchange" ELSE "removeLast"
    /\ UNCHANGED <<list, loading, error, submits, parseVars, gridVars>>
    /\ answered' = Null
    /\ UNCHANGED loginVars

\* handleSubmit up to the await of fetch
HandleSubmit ==
    /\ submits < MaxSubmits
    /\ posted' = PayloadRows(exchanges)
    /\ submits' = submits + 1
    /\ formOp' = "handleSubmit"
    /\ UNCHANGED <<list, loading, error, exchanges, parseVars, gridVars>>
    /\ answered' = Null
    /\ UNCHANGED loginVars

\* res.ok and res.json() resolved to data
SubmitOk(data) ==
    /\ submits > 0
    /\ submits' = submits - 1
    /\ IF "rows" \in DOMAIN data
       THEN exchanges' = MergeConverted(exchanges, data.rows)
       ELSE UNCHANGED exchanges
    /\ posted' = <<>>
    /\ formOp' = "submitOk"
    /\ UNCHANGED <<list, loading, error, parseVars, gridVars>>
    /\ answered' = data
    /\ UNCHANGED loginVars

\* !res.ok, or fetch / res.json() rejected: alert only
SubmitFailed ==
    /\ submits > 0
    /\ submits' = submits - 1
    /\ posted' = <<>>
    /\ formOp' = "submitFailed"
    /\ UNCHANGED <<list, loading, error, exchanges, parseVars, gridVars>>
    /\ answered' = Null
    /\ UNCHANGED loginVars

\* seeding, field changes, add-row and remove-row
EditNext ==
    \/ \E data \in ServerLists : \E ups \in BoolSeqs(Len(exchanges)) : LoadOk(data, ups)
    \/ LoadFailed
    \/ \E i \in 1..Len(exchanges), up \in BOOLEAN :
          \/ \E v \in AmountInputs : HandleExchangeChange(exchanges[i].id, "clientAmount", v, up)
          \/ \E v \in RateInputs : HandleExchangeChange(exchanges[i].id, "exchangeRate", v, up)
          \/ /\ ~(loading \/ Len(list) = 0)
             /\ \E v \in OptionIds(list) :
                    HandleExchangeChange(exchanges[i].id, "clientCurrencyId", v, up)
    \/ AddExchange
    \/ \E i \in 1..Len(exchanges) : RemoveExchange(exchanges[i].id)

\* submission and its responses
SubmitNext ==
    \/ HandleSubmit
    \/ \E data \in SubmitBodies : SubmitOk(data)
    \/ SubmitFailed

\* submission of a form whose line items carry an amount or none
MergeNext ==
    \/ \E ups \in BoolSeqs(Len(exchanges)) : LoadOk(<<USD, RON>>, ups)
    \/ \E i \in 1..Len(exchanges), up \in BOOLEAN :
          \E v \in {<<>>, <<"1", "0", "0">>} :
              HandleExchangeChange(exchanges[i].id, "clientAmount", v, up)
    \/ AddExchange
    \/ \E i \in 1..Len(exchanges) : RemoveExchange(exchanges[i].id)
    \/ SubmitNext

\* ------------------------------------------------------------------------
\* Currency Grid (CurrencyGridPage)
\* ------------------------------------------------------------------------
T_Euro == <<"E", "u", "r", "o">>
T_Leu == <<"L", "e", "u">>

\* CurrencyRow records held by the service
RowA == [id |-> "a", name |-> T_Euro, symbol |-> T_EUR, buyPrice |-> Norm(495, 2),
         sellPrice |-> Norm(502, 2), fixing |-> Norm(497, 2), updatedAt |-> "t0"]
RowB == [id |-> "b", name |-> T_Leu, symbol |-> T_RON, buyPrice |-> Norm(1, 0),
         sellPrice |-> Norm(1, 0), fixing |-> Norm(1, 0), updatedAt |-> "t0"]

\* bodies GET /api/currencies may answer with
GridLists == {<<>>, <<RowA, RowB>>, <<RowB>>}

\* what a failed request looks like: fetch rejected, or a non-2xx status whose
\* body has a string `message` (possibly empty) or none
Failures ==
    {[kind |-> "reject", status |-> "", message |-> "Failed to fetch"],
     [kind |-> "http", status |-> "500", message |-> Nil],
     [kind |-> "http", status |-> "409", message |-> ""]}

\* the message of the Error handleJson throws for a non-ok response, or of
\* the rejection of fetch
handleJson(f) ==
    IF f.kind = "reject" THEN f.message
    ELSE IF f.message # Nil THEN f.message
    ELSE "HTTP " \o f.status

\* the message of the Error deleteCurrency throws
deleteCurrency(f) ==
    IF f.kind = "reject" THEN f.message ELSE "HTTP " \o f.status

\* e.message || fallback
OrElse(msg, fallback) == IF msg = "" THEN fallback ELSE msg

EmptyForm == [name |-> <<>>, symbol |-> <<>>, buyPrice |-> <<>>, sellPrice |-> <<>>,
              fixing |-> <<>>]

\* a validation that lets an unparsable buy price through
Validate_NoBuyTest(d) ==
    IF Trim(d.name) = <<>> THEN "Name is required"
    ELSE IF Trim(d.symbol) = <<>> THEN "Symbol is required"
    ELSE IF parseNumber(d.sellPrice) = Null THEN "Sell price must be a number"
    ELSE IF parseNumber(d.fixing) = Null THEN "Fixing must be a number"
    ELSE Nil

\* the alert addRow / saveEdit raise for the texts d, Nil when d is valid
Validate(d) ==
    IF Trim(d.name) = <<>> THEN "Name is required"
    ELSE IF Trim(d.symbol) = <<>> THEN "Symbol is required"
    ELSE IF parseNumber(d.buyPrice) = Null THEN "Buy price must be a number"
    ELSE IF parseNumber(d.sellPrice) = Null THEN "Sell price must be a number"
    ELSE IF parseNumber(d.fixing) = Null THEN "Fixing must be a number"
    ELSE Nil

\* const payload: UpsertPayload = {...}
UpsertPayload(d) ==
    [name |-> Trim(d.name),
     symbol |-> ToUpperCase(Trim(d.symbol)),
     buyPrice |-> parseNumber(d.buyPrice),
     sellPrice |-> parseNumber(d.sellPrice),
     fixing |-> parseNumber(d.fixing)]

\* the record the service answers a create or an update with
Stored(id, body) ==
    [id |-> id, name |-> body.name, symbol |-> body.symbol, buyPrice |-> body.buyPrice,
     sellPrice |-> body.sellPrice, fixing |-> body.fixing, updatedAt |-> "t1"]

\* ids the service gives to created records
NewIds == {"c"}

Request(kind, id, body) == [seq |-> calls + 1, kind |-> kind, id |-> id, body |-> body]

\* rows.find((x) => x.id === id), Null when absent
FindRow(rs, id) ==
    IF \E i \in 1..Len(rs) : rs[i].id = id
    THEN rs[CHOOSE i \in 1..Len(rs) : rs[i].id = id /\ \A j \in 1..(i - 1) : rs[j].id # id]
    ELSE Null

\* the draft startEdit captures
DraftOf(r) ==
    [name |-> r.name, symbol |-> r.symbol, buyPrice |-> String(r.buyPrice),
     sellPrice |-> String(r.sellPrice), fixing |-> String(r.fixing)]

\* prev.map((r) => (r.id === id ? updated : r))
RECURSIVE ReplaceRow(_, _, _)
ReplaceRow(prev, id, updated) ==
    IF prev = <<>> THEN <<>>
    ELSE <<IF Head(prev).id = id THEN updated ELSE Head(prev)>>
         \o ReplaceRow(Tail(prev), id, updated)

\* the draft written through to the row in edit mode
RECURSIVE WriteThrough(_, _, _, _)
WriteThrough(prev, id, field, value) ==
    IF prev = <<>> THEN <<>>
    ELSE <<IF Head(prev).id = id /\ field = "name"
           THEN [Head(prev) EXCEPT !.name = value] ELSE Head(prev)>>
         \o WriteThrough(Tail(prev), id, field, value)

\* prev.filter((r) => r.id !== id)
FilterRow(prev, id) == SelectSeq(prev, LAMBDA r : r.id # id)

\* the row in edit mode is rendered (its inputs, Save and Cancel exist)
EditRendered == \E i \in 1..Len(rows) : rows[i].id = editingId

\* the snapshot kept while a run of startEdit, draft changes, cancel lasts
Snapshot == [rows |-> rows, calls |-> calls, typed |-> FALSE]

GridInit ==
    /\ rows = <<>>
    /\ gridLoading = TRUE
    /\ gridError = Nil
    /\ form = EmptyForm
    /\ editingId = Nil
    /\ editDraft = Null
    /\ pending = {[seq |-> 1, kind |-> "mount", id |-> Nil, body |-> Null]}
    /\ calls = 1
    /\ alert = Nil
    /\ sinceEdit = Null
    /\ fetched = Null
    /\ gridOp = "mount"

\* a list response merged into the rows instead of replacing them
ListOk_Appends(req, data) ==
    /\ req \in pending /\ req.kind \in {"mount", "refetch"}
    /\ pending' = pending \ {req}
    /\ rows' = rows \o data
    /\ gridLoading' = FALSE
    /\ alert' = Nil /\ sinceEdit' = Null /\ gridOp' = "listOk"
    /\ UNCHANGED <<gridError, form, editingId, editDraft, calls, parseVars, formVars>>
    /\ fetched' = data
    /\ UNCHANGED loginVars

\* listCurrencies resolved (initial fetch or refetch)
ListOk(req, data) ==
    /\ req \in pending /\ req.kind \in {"mount", "refetch"}
    /\ pending' = pending \ {req}
    /\ rows' = data
    /\ gridLoading' = FALSE
    /\ alert' = Nil /\ sinceEdit' = Null /\ gridOp' = "listOk"
    /\ UNCHANGED <<gridError, form, editingId, editDraft, calls, parseVars, formVars>>
    /\ fetched' = data
    /\ UNCHANGED loginVars

\* listCurrencies rejected
ListFailed(req, f) ==
    /\ req \in pending /\ req.kind \in {"mount", "refetch"}
    /\ pending' = pending \ {req}
    /\ gridError' = OrElse(handleJson(f),
                           IF req.kind = "mount" THEN "Failed to load" ELSE "Refresh failed")
    /\ gridLoading' = FALSE
    /\ alert' = Nil /\ sinceEdit' = Null /\ gridOp' = "listFailed"
    /\ UNCHANGED <<rows, form, editingId, editDraft, calls, parseVars, formVars>>
    /\ fetched' = Null
    /\ UNCHANGED loginVars

\* async function refetch(), up to the await
Refetch ==
    /\ calls < MaxCalls
    /\ gridLoading' = TRUE
    /\ gridError' = Nil
    /\ pending' = pending \cup {Request("refetch", Nil, Null)}
    /\ calls' = calls + 1
    /\ alert' = Nil /\ sinceEdit' = Null /\ gridOp' = "refetch"
    /\ UNCHANGED <<rows, form, editingId, editDraft, parseVars, formVars>>
    /\ fetched' = Null
    /\ UNCHANGED loginVars

\* onChange of an add-form input: setForm((f) => ({...f, [field]: value}))
SetForm(field, value) ==
    /\ form' = [form EXCEPT ![field] = IF field = "symbol" THEN ToUpperCase(value) ELSE value]
    /\ alert' = Nil /\ sinceEdit' = Null /\ gridOp' = "setForm"
    /\ UNCHANGED <<rows, gridLoading, gridError, editingId, editDraft, pending, calls, parseVars, formVars>>
    /\ fetched' = Null
    /\ UNCHANGED loginVars

\* async function addRow(e), up to the await
AddRow ==
    /\ alert' = Validate(form)
    /\ IF Validate(form) # Nil
       THEN UNCHANGED <<gridError, pending, calls>>
       ELSE /\ calls < MaxCalls
            /\ gridError' = Nil
            /\ pending' = pending \cup {Request("create", Nil, UpsertPayload(form))}
            /\ calls' = calls + 1
    /\ sinceEdit' = Null /\ gridOp' = "addRow"
    /\ UNCHANGED <<rows, gridLoading, form, editingId, editDraft, parseVars, formVars>>
    /\ fetched' = Null
    /\ UNCHANGED loginVars

\* a create that appends the record instead of prepending it
CreateOk_Appends(req, id) ==
    /\ req \in pending /\ req.kind = "create"
    /\ pending' = pending \ {req}
    /\ rows' = Append(rows, Stored(id, req.body))
    /\ form' = EmptyForm
    /\ alert' = Nil /\ sinceEdit' = Null /\ gridOp' = "createOk"
    /\ UNCHANGED <<gridLoading, gridError, editingId, editDraft, calls, parseVars, formVars>>
    /\ fetched' = Null
    /\ UNCHANGED loginVars

\* createCurrency resolved
CreateOk(req, id) ==
    /\ req \in pending /\ req.kind = "create"
    /\ pending' = pending \ {req}
    /\ rows' = <<Stored(id, req.body)>> \o rows
    /\ form' = EmptyForm
    /\ alert' = Nil /\ sinceEdit' = Null /\ gridOp' = "createOk"
    /\ UNCHANGED <<gridLoading, gridError, editingId, editDraft, calls, parseVars, formVars>>
    /\ fetched' = Null
    /\ UNCHANGED loginVars

\* createCurrency rejected
CreateFailed(req, f) ==
    /\ req \in pending /\ req.kind = "create"
    /\ pending' = pending \ {req}
    /\ gridError' = OrElse(handleJson(f), "Create failed")
    /\ alert' = Nil /\ sinceEdit' = Null /\ gridOp' = "createFailed"
    /\ UNCHANGED <<rows, gridLoading, form, editingId, editDraft, calls, parseVars, formVars>>
    /\ fetched' = Null
    /\ UNCHANGED loginVars

\* function startEdit(id)
StartEdit(id) ==
    /\ LET r == FindRow(rows, id)
       IN  IF r = Null THEN UNCHANGED <<editingId, editDraft>>
           ELSE /\ editingId' = id
                /\ editDraft' = DraftOf(r)
    /\ alert' = Nil /\ sinceEdit' = Snapshot /\ gridOp' = "startEdit"
    /\ UNCHANGED <<rows, gridLoading, gridError, form, pending, calls, parseVars, formVars>>
    /\ fetched' = Null
    /\ UNCHANGED loginVars

\* an edit input bound to the row itself as well as to the draft
SetEditDraft_InPlace(field, value) ==
    /\ EditRendered
    /\ editDraft' = IF editDraft = Null THEN editDraft
                    ELSE [editDraft EXCEPT ![field] =
                              IF field = "symbol" THEN ToUpperCase(value) ELSE value]
    /\ rows' = WriteThrough(rows, editingId, field, value)
    /\ sinceEdit' = IF sinceEdit = Null THEN Null ELSE [sinceEdit EXCEPT !.typed = TRUE]
    /\ alert' = Nil /\ gridOp' = "setEditDraft"
    /\ UNCHANGED <<gridLoading, gridError, form, editingId, pending, calls, parseVars, formVars>>
    /\ fetched' = Null
    /\ UNCHANGED loginVars

\* onChange of an edit input: setEditDraft((d) => (d ? {...d, [field]: value} : d))
SetEditDraft(field, value) ==
    /\ EditRendered
    /\ editDraft' = IF editDraft = Null THEN editDraft
                    ELSE [editDraft EXCEPT ![field] =
                              IF field = "symbol" THEN ToUpperCase(value) ELSE value]
    /\ sinceEdit' = IF sinceEdit = Null THEN Null ELSE [sinceEdit EXCEPT !.typed = TRUE]
    /\ alert' = Nil /\ gridOp' = "setEditDraft"
    /\ UNCHANGED <<rows, gridLoading, gridError, form, editingId, pending, calls, parseVars, formVars>>
    /\ fetched' = Null
    /\ UNCHANGED loginVars

\* a cancel that leaves the draft behind
CancelEdit_KeepsDraft ==
    /\ EditRendered
    /\ editingId' = Nil
    /\ alert' = Nil /\ gridOp' = "cancelEdit"
    /\ UNCHANGED <<rows, gridLoading, gridError, form, editDraft, pending, calls, sinceEdit, parseVars, formVars>>
    /\ fetched' = Null
    /\ UNCHANGED loginVars

\* function cancelEdit(), from the Cancel button
CancelEdit ==
    /\ EditRendered
    /\ editingId' = Nil
    /\ editDraft' = Null
    /\ alert' = Nil /\ gridOp' = "cancelEdit"
    /\ UNCHANGED <<rows, gridLoading, gridError, form, pending, calls, sinceEdit, parseVars, formVars>>
    /\ fetched' = Null
    /\ UNCHANGED loginVars

\* async function saveEdit(id), up to the await
SaveEdit(id) ==
    /\ EditRendered /\ id = editingId
    /\ IF editDraft = Null
       THEN UNCHANGED <<gridError, pending, calls, alert>>
       ELSE /\ alert' = Validate(editDraft)
            /\ IF Validate(editDraft) # Nil
               THEN UNCHANGED <<gridError, pending, calls>>
               ELSE /\ calls < MaxCalls
                    /\ gridError' = Nil
                    /\ pending' = pending \cup {Request("update", id, UpsertPayload(editDraft))}
                    /\ calls' = calls + 1
    /\ sinceEdit' = Null /\ gridOp' = "saveEdit"
    /\ UNCHANGED <<rows, gridLoading, form, editingId, editDraft, parseVars, formVars>>
    /\ fetched' = Null
    /\ UNCHANGED loginVars

\* an update that moves the saved record to the front of the rows
UpdateOk_MovesToFront(req) ==
    /\ req \in pending /\ req.kind = "update"
    /\ pending' = pending \ {req}
    /\ rows' = <<Stored(req.id, req.body)>> \o FilterRow(rows, req.id)
    /\ editingId' = Nil
    /\ editDraft' = Null
    /\ alert' = Nil /\ sinceEdit' = Null /\ gridOp' = "updateOk"
    /\ UNCHANGED <<gridLoading, gridError, form, calls, parseVars, formVars>>
    /\ fetched' = Null
    /\ UNCHANGED loginVars

\* updateCurrency resolved
UpdateOk(req) ==
    /\ req \in pending /\ req.kind = "update"
    /\ pending' = pending \ {req}
    /\ rows' = ReplaceRow(rows, req.id, Stored(req.id, req.body))
    /\ editingId' = Nil
    /\ editDraft' = Null
    /\ alert' = Nil /\ sinceEdit' = Null /\ gridOp' = "updateOk"
    /\ UNCHANGED <<gridLoading, gridError, form, calls, parseVars, formVars>>
    /\ fetched' = Null
    /\ UNCHANGED loginVars

\* updateCurrency rejected
UpdateFailed(req, f) ==
    /\ req \in pending /\ req.kind = "update"
    /\ pending' = pending \ {req}
    /\ gridError' = OrElse(handleJson(f), "Update failed")
    /\ alert' = Nil /\ sinceEdit' = Null /\ gridOp' = "updateFailed"
    /\ UNCHANGED <<rows, gridLoading, form, editingId, editDraft, calls, parseVars, formVars>>
    /\ fetched' = Null
    /\ UNCHANGED loginVars

\* async function removeRow(id), up to the await; `confirmed` is the answer
\* to window.confirm
RemoveRow(id, confirmed) ==
    /\ id # editingId
    /\ IF ~confirmed
       THEN /\ gridOp' = "removeDeclined"
            /\ UNCHANGED <<gridError, pending, calls>>
       ELSE /\ calls < MaxCalls
            /\ gridOp' = "removeRow"
            /\ gridError' = Nil
            /\ pending' = pending \cup {Request("delete", id, Null)}
            /\ calls' = calls + 1
    /\ alert' = Nil /\ sinceEdit' = Null
    /\ UNCHANGED <<rows, gridLoading, form, editingId, editDraft, parseVars, formVars>>
    /\ fetched' = Null
    /\ UNCHANGED loginVars

\* deleteCurrency resolved
DeleteOk(req) ==
    /\ req \in pending /\ req.kind = "delete"
    /\ pending' = pending \ {req}
    /\ rows' = FilterRow(rows, req.id)
    /\ alert' = Nil /\ sinceEdit' = Null /\ gridOp' = "deleteOk"
    /\ UNCHANGED <<gridLoading, gridError, form, editingId, editDraft, calls, parseVars, formVars>>
    /\ fetched' = Null
    /\ UNCHANGED loginVars

\* a delete that drops the row although the request failed
DeleteFailed_DropsRow(req, f) ==
    /\ req \in pending /\ req.kind = "delete"
    /\ pending' = pending \ {req}
    /\ rows' = FilterRow(rows, req.id)
    /\ gridError' = OrElse(deleteCurrency(f), "Delete failed")
    /\ alert' = Nil /\ sinceEdit' = Null /\ gridOp' = "deleteFailed"
    /\ UNCHANGED <<gridLoading, form, editingId, editDraft, calls, parseVars, formVars>>
    /\ fetched' = Null
    /\ UNCHANGED loginVars

\* deleteCurrency rejected
DeleteFailed(req, f) ==
    /\ req \in pending /\ req.kind = "delete"
    /\ pending' = pending \ {req}
    /\ gridError' = OrElse(deleteCurrency(f), "Delete failed")
    /\ alert' = Nil /\ sinceEdit' = Null /\ gridOp' = "deleteFailed"
    /\ UNCHANGED <<rows, gridLoading, form, editingId, editDraft, calls, parseVars, formVars>>
    /\ fetched' = Null
    /\ UNCHANGED loginVars

Fields == {"name", "symbol", "buyPrice", "sellPrice", "fixing"}

\* texts typed into the add-form inputs
FormTexts ==
    [name |-> {T_Euro},
     symbol |-> {<<"e", "u", "r">>},
     buyPrice |-> {<<"a", "b", "c">>, <<"4", ",", "9", "5">>},
     sellPrice |-> {<<"5", ".", "0", "2">>},
     fixing |-> {<<"4", ".", "9", "7">>}]

\* texts typed into the inputs of the row in edit mode
DraftTexts ==
    [name |-> {<<" ">>},
     symbol |-> {<<>>},
     buyPrice |-> {<<"a", "b", "c">>, <<"5">>},
     sellPrice |-> {<<>>},
     fixing |-> {<<"x">>}]

RECURSIVE RowIds(_)
RowIds(rs) == IF rs = <<>> THEN {} ELSE {Head(rs).id} \cup RowIds(Tail(rs))

ListResponses ==
    \E req \in pending :
        \/ \E data \in GridLists : ListOk(req, data)
        \/ \E f \in Failures : ListFailed(req, f)

TypeForm == \E field \in Fields : \E v \in FormTexts[field] : SetForm(field, v)

TypeDraft(fields) == \E field \in fields : \E v \in DraftTexts[field] : SetEditDraft(field, v)

\* the Edit button of a row that is not in edit mode
ClickEdit == \E id \in RowIds(rows) \ {editingId} : StartEdit(id)

\* the Save button of the row in edit mode
ClickSave == \E id \in RowIds(rows) : SaveEdit(id)

\* the Delete button of a row that is not in edit mode
ClickDelete == \E id \in RowIds(rows) : \E confirmed \in BOOLEAN : RemoveRow(id, confirmed)

\* validation of the add-form and of the edit draft; the service has not
\* answered a create or an update yet
ValidateNext ==
    \/ \E req \in pending : \E data \in GridLists : ListOk(req, data)
    \/ TypeForm
    \/ AddRow
    \/ ClickEdit
    \/ TypeDraft(Fields)
    \/ CancelEdit
    \/ ClickSave

\* the add-form and the create round trip
GridAddNext ==
    \/ ListResponses
    \/ TypeForm
    \/ AddRow
    \/ \E req \in pending : \E id \in NewIds : CreateOk(req, id)
    \/ \E req \in pending : \E f \in Failures : CreateFailed(req, f)

\* the table: refresh, inline edit, delete and their round trips
GridEditNext ==
    \/ ListResponses
    \/ Refetch
    \/ ClickEdit
    \/ TypeDraft({"name", "buyPrice"})
    \/ CancelEdit
    \/ ClickSave
    \/ \E req \in pending : UpdateOk(req)
    \/ \E req \in pending : \E f \in Failures : UpdateFailed(req, f)
    \/ ClickDelete
    \/ \E req \in pending : DeleteOk(req)
    \/ \E req \in pending : \E f \in Failures : DeleteFailed(req, f)

\* ------------------------------------------------------------------------
\* Login Shell (LoginPage)
\* ------------------------------------------------------------------------
LoginInit ==
    /\ isLogin = TRUE
    /\ showPassword = FALSE
    /\ formData = [email |-> "", password |-> "", name |-> ""]
    /\ loginRequests = 0
    /\ loginOp = "mount"

\* what the page renders
Title == IF isLogin THEN "Welcome Back" ELSE "Create Account"

Subtitle == IF isLogin THEN "Sign in to your account" ELSE "Join us today"

SubmitLabel == IF isLogin THEN "Sign In" ELSE "Create Account"

\* names of the inputs rendered
RenderedInputs == IF isLogin THEN {"email", "password"} ELSE {"name", "email", "password"}

ForgotLink == isLogin

PasswordInputType == IF showPassword THEN "text" ELSE "password"

\* texts typed into the inputs
LoginTexts ==
    [email |-> {"", "a", "a@b", "a@b.ro", "x"},
     password |-> {"", "p", "pw", "pw1", "secret"},
     name |-> {"", "Ana"}]

\* handleInputChange, from an input that is rendered
LoginInputChange(name, value) ==
    /\ name \in RenderedInputs
    /\ formData' = [formData EXCEPT ![name] = value]
    /\ loginOp' = "handleInputChange"
    /\ UNCHANGED <<isLogin, showPassword, loginRequests, parseVars, formVars, gridVars>>

\* onClick of the password toggle: setShowPassword(!showPassword)
TogglePassword ==
    /\ showPassword' = ~showPassword
    /\ loginOp' = "togglePassword"
    /\ UNCHANGED <<isLogin, formData, loginRequests, parseVars, formVars, gridVars>>

\* handleSubmit: e.preventDefault() and nothing else
LoginSubmit ==
    /\ loginOp' = "handleSubmit"
    /\ UNCHANGED <<isLogin, showPassword, formData, loginRequests, parseVars, formVars, gridVars>>

\* the controls the page renders: the three inputs of the layout, the
\* password toggle and the submit button
LoginNext ==
    \/ \E name \in DOMAIN LoginTexts : \E value \in LoginTexts[name] :
          LoginInputChange(name, value)
    \/ TogglePassword
    \/ LoginSubmit

\* ------------------------------------------------------------------------
\* Specifications
\* ------------------------------------------------------------------------
\* both pages as mounted
Init ==
    /\ ParseIdle
    /\ FormInit
    /\ GridInit
    /\ LoginInit

\* parseNumber on every text of at most MaxLen characters
InitParse ==
    /\ ParseInit
    /\ FormInit
    /\ GridInit
    /\ LoginInit

SpecParse == InitParse /\ [][ParseText]_vars

\* Exchange Form: seeding, field changes, add-row, remove-row
SpecForm == Init /\ [][EditNext]_vars

\* Exchange Form with submission
FormNext == EditNext \/ SubmitNext

SpecSubmit == Init /\ [][FormNext]_vars

\* Exchange Form: submission and the merge of its response
SpecMerge == Init /\ [][MergeNext]_vars

\* Currency Grid: client-side validation
SpecValidate == Init /\ [][ValidateNext]_vars

\* Currency Grid: create
SpecGridAdd == Init /\ [][GridAddNext]_vars

\* Currency Grid: refresh, edit, delete
SpecGridEdit == Init /\ [][GridEditNext]_vars

\* Login Shell
SpecLogin == Init /\ [][LoginNext]_vars

\* ------------------------------------------------------------------------
\* Properties
\* ------------------------------------------------------------------------
Separators == {".", ","}

\* the text with every decimal separator written as sep
RECURSIVE WithSeparator(_, _)
WithSeparator(t, sep) ==
    IF t = <<>> THEN <<>>
    ELSE <<IF Head(t) \in Separators THEN sep ELSE Head(t)>> \o WithSeparator(Tail(t), sep)

\* the text, blanks around it aside, writes a decimal number: digits with at
\* most one separator
IsNumeral(t) ==
    LET s == Trim(t)
    IN  /\ \A i \in 1..Len(s) : s[i] \in Digits \cup Separators
        /\ \E i \in 1..Len(s) : s[i] \in Digits
        /\ Cardinality({i \in 1..Len(s) : s[i] \in Separators}) <= 1

\* the number a numeral writes
Written(t) == Number(WithSeparator(t, "."))

\* text is x rendered with two decimals, x rounded to a nearest hundredth
IsRounded2(text, x) ==
    \E c \in {(x.n * 100) \div Pow10(x.d), ((x.n * 100) \div Pow10(x.d)) + 1} :
        /\ 2 * (x.n * 100 - c * Pow10(x.d)) <= Pow10(x.d)
        /\ 2 * (c * Pow10(x.d) - x.n * 100) <= Pow10(x.d)
        /\ text = NatToStr(c \div 100) \o <<".">> \o FracDigits(c % 100, 2)

\* C1: in the Exchange Form, after any sequence of seeding, add-row,
\* remove-row and field-change operations, every line item's converted amount
\* is amount x rate rounded to 2 decimals when both texts write finite
\* numbers, and the empty text otherwise (in particular when the amount or
\* the rate text is empty).
C1_ConvertedDerived ==
    \A i \in 1..Len(exchanges) :
        LET r == exchanges[i]
        IN  IF IsNumeral(r.clientAmount) /\ IsNumeral(r.exchangeRate)
            THEN IsRounded2(r.convertedAmount,
                            Times(Written(r.clientAmount), Written(r.exchangeRate)))
            ELSE r.convertedAmount = <<>>

\* C2: changing the source currency of line item X to a currency of the
\* loaded list sets X's rate to that currency's sell price and X's converted
\* amount to the value derived from X's amount and the new rate, and leaves
\* every other line item (and X's id, amount and target) unchanged.
C2_SourceChange ==
    [][formOp' = "clientCurrencyId" =>
          /\ Len(exchanges') = Len(exchanges)
          /\ \E i \in 1..Len(exchanges) :
                LET x == exchanges[i]
                    y == exchanges'[i]
                    c == ById(list, y.clientCurrencyId)
                IN  /\ c # Null
                    /\ toDec(y.exchangeRate) = c.sellPrice
                    /\ \E up \in BOOLEAN :
                          y.convertedAmount =
                              computeConverted(x.clientAmount, y.exchangeRate, up)
                    /\ y.id = x.id
                    /\ y.clientAmount = x.clientAmount
                    /\ y.targetCurrencyId = x.targetCurrencyId
                    /\ \A j \in 1..Len(exchanges) : j # i => exchanges'[j] = exchanges[j]
      ]_vars

\* a source change has just set the second item to USD at 4.5 with 100 typed,
\* next to an item whose source is RON
C2_Witness ==
    /\ formOp = "clientCurrencyId"
    /\ Len(exchanges) = 2
    /\ exchanges[1].clientCurrencyId = "id-ron"
    /\ exchanges[2].clientCurrencyId = "id-usd"
    /\ exchanges[2].clientAmount = <<"1", "0", "0">>
    /\ exchanges[2].exchangeRate = <<"4", ".", "5">>
    /\ exchanges[2].convertedAmount = <<"4", "5", "0", ".", "0", "0">>

\* C3: remove-row leaves the line items unchanged when exactly one remains,
\* so the form holds at least one line item in every reachable state.
C3_KeepsLastRow ==
    /\ [](Len(exchanges) >= 1)
    /\ [][(formOp' \in {"removeExchange", "removeLast"} /\ Len(exchanges) = 1)
             => exchanges' = exchanges]_vars

\* remove-row has just run on a form with a single line item
C3_Witness ==
    /\ formOp = "removeLast"
    /\ Len(exchanges) = 1

C5_ParseNumber ==
    pres # Unparsed =>
        /\ parseNumber(WithSeparator(ptext, ",")) = pres
        /\ parseNumber(WithSeparator(ptext, ".")) = pres
        /\ Trim(ptext) = <<>> => pres = Null
        /\ ~IsNumeral(ptext) => pres = Null
        /\ IsNumeral(ptext) => pres # Null /\ pres = Written(ptext)
        /\ pres = Zero => \E i \in 1..Len(ptext) : ptext[i] = "0"

\* "1,5" has been parsed, to 1.5
C5_Witness ==
    /\ ptext = <<"1", ",", "5">>
    /\ pres = Norm(15, 1)

\* the amount or rate v of a payload row against the text of its field
PayloadField(text, v) ==
    IF IsNumeral(text) THEN v = Written(text) ELSE v = Null

\* C6: in the submission payload, each row's amount and rate is the number
\* written in the corresponding text field (',' or '.' as separator) when the
\* text writes a finite number, and null, never zero, when the text is empty
\* or non-numeric.
C6_PayloadNumbers ==
    posted # <<>> =>
        /\ Len(posted) = Len(exchanges)
        /\ \A i \in 1..Len(posted) :
              /\ PayloadField(exchanges[i].clientAmount, posted[i].amount)
              /\ PayloadField(exchanges[i].exchangeRate, posted[i].rate)


Blank(t) == \A i \in 1..Len(t) : t[i] = " "

\* the texts d do not make a quote: a required text is blank or a price does
\* not write a number
Invalid(d) ==
    \/ Blank(d.name)
    \/ Blank(d.symbol)
    \/ ~IsNumeral(d.buyPrice)
    \/ ~IsNumeral(d.sellPrice)
    \/ ~IsNumeral(d.fixing)

\* what a blocked create or save leaves behind for the texts d
Blocked(d) ==
    /\ calls' = calls
    /\ pending' = pending
    /\ alert' \notin {Nil, ""}
    /\ (~Blank(d.name) /\ ~Blank(d.symbol) /\ ~IsNumeral(d.buyPrice))
           => alert' = "Buy price must be a number"
    /\ UNCHANGED <<rows, form, editDraft, editingId>>

\* C7: create (addRow) and save (saveEdit) issue no network request whenever
\* the name or the symbol is blank or any of buy price, sell price, fixing
\* does not write a finite number; the user is alerted ("Buy price must be a
\* number" for an unparsable buy price with name and symbol present) and
\* rows, add-form, edit draft and edit mode are unchanged; valid texts raise
\* no alert.
C7_ValidationBlocks ==
    [][/\ (gridOp' = "addRow" /\ Invalid(form)) => Blocked(form)
       /\ (gridOp' = "saveEdit" /\ editDraft # Null /\ Invalid(editDraft)) => Blocked(editDraft)
       /\ (gridOp' = "addRow" /\ ~Invalid(form)) => alert' = Nil /\ calls' = calls + 1
      ]_vars

\* a save has just been blocked on a draft whose buy price is "abc"
C7_Witness ==
    /\ gridOp = "saveEdit"
    /\ alert = "Buy price must be a number"
    /\ editDraft # Null
    /\ editDraft.buyPrice = <<"a", "b", "c">>
    /\ calls = 1

\* C8: delete removes a row from the local rows only when the user confirmed
\* and the delete request succeeded; when the user declines no request is
\* issued, and when the request fails the rows are unchanged and an error
\* message is set.
C8_DeleteOnSuccess ==
    [][/\ gridOp' = "removeDeclined" =>
             calls' = calls /\ pending' = pending /\ rows' = rows
       /\ gridOp' = "removeRow" =>
             /\ rows' = rows
             /\ calls' = calls + 1
             /\ \E req \in pending' \ pending : req.kind = "delete"
       /\ gridOp' = "deleteFailed" =>
             rows' = rows /\ gridError' \notin {Nil, ""}
       /\ gridOp' = "deleteOk" =>
             \E req \in pending \ pending' :
                 /\ req.kind = "delete"
                 /\ rows' = SelectSeq(rows, LAMBDA r : r.id # req.id)
      ]_vars

\* a confirmed delete has just been answered with status 500: both rows stay
C8_Witness ==
    /\ gridOp = "deleteFailed"
    /\ gridError = "HTTP 500"
    /\ rows = <<RowA, RowB>>

\* C9: entering edit mode, changing the draft any number of times and then
\* cancelling issues no network request and leaves the rows as they were
\* when the edit started, with the draft discarded and edit mode left.
C9_CancelReverts ==
    (gridOp = "cancelEdit" /\ sinceEdit # Null) =>
        /\ rows = sinceEdit.rows
        /\ calls = sinceEdit.calls
        /\ editingId = Nil
        /\ editDraft = Null

\* an edit whose draft was changed has just been cancelled
C9_Witness ==
    /\ gridOp = "cancelEdit"
    /\ sinceEdit # Null
    /\ sinceEdit.typed
    /\ rows = <<RowA, RowB>>

\* C10: a create request that succeeds puts the record the service returned
\* at the front of the rows, the other rows keeping their order, and resets
\* the add-form; one that fails sets the error message and leaves the rows
\* unchanged.
C10_CreateRoundTrip ==
    [][/\ gridOp' = "createOk" =>
             /\ Len(rows') = Len(rows) + 1
             /\ Tail(rows') = rows
             /\ \E req \in pending \ pending' : \E id \in NewIds :
                   Head(rows') = Stored(id, req.body)
             /\ form' = EmptyForm
       /\ gridOp' = "createFailed" =>
             rows' = rows /\ gridError' \notin {Nil, ""}
      ]_vars

\* the created Euro quote has just been put in front of the two listed rows
C10_Witness ==
    /\ gridOp = "createOk"
    /\ Len(rows) = 3
    /\ rows[1].id = "c"
    /\ rows[1].buyPrice = Norm(495, 2)
    /\ SubSeq(rows, 2, 3) = <<RowA, RowB>>
    /\ form = EmptyForm


\* C11: a save whose update request succeeds replaces the row with the saved
\* id by the service's response at the same position, leaves every other row
\* and the row order unchanged, and leaves edit mode; a save whose update
\* request fails leaves the rows unchanged and sets the error message.
C11_UpdateInPlace ==
    [][/\ gridOp' = "updateOk" =>
             /\ Len(rows') = Len(rows)
             /\ \E req \in pending \ pending' :
                   /\ req.kind = "update"
                   /\ \A i \in 1..Len(rows) :
                         rows'[i] = IF rows[i].id = req.id
                                    THEN Stored(req.id, req.body)
                                    ELSE rows[i]
             /\ editingId' = Nil
             /\ editDraft' = Null
       /\ gridOp' = "updateFailed" =>
             rows' = rows /\ gridError' \notin {Nil, ""}
      ]_vars

\* the Leu row, second of two, has just been saved with buy price 5
C11_Witness ==
    /\ gridOp = "updateOk"
    /\ Len(rows) = 2
    /\ rows[1] = RowA
    /\ rows[2].id = "b"
    /\ rows[2].buyPrice = Norm(5, 0)
    /\ rows[2].updatedAt = "t1"
    /\ editingId = Nil


\* C12: every list fetch (on mount or by Refresh) ends with the loading flag
\* false: on success the rows are replaced by exactly the fetched list, on
\* failure the rows are unchanged and an error message is set.
C12_ListFetch ==
    [][/\ gridOp' = "listOk" =>
             /\ gridLoading' = FALSE
             /\ rows' = fetched'
             /\ \E req \in pending \ pending' : req.kind \in {"mount", "refetch"}
       /\ gridOp' = "listFailed" =>
             /\ gridLoading' = FALSE
             /\ rows' = rows
             /\ gridError' \notin {Nil, ""}
             /\ \E req \in pending \ pending' : req.kind \in {"mount", "refetch"}
      ]_vars

\* a Refresh has just failed on a grid that shows the two rows fetched on
\* mount
C12_Witness ==
    /\ gridOp = "listFailed"
    /\ rows = <<RowA, RowB>>
    /\ gridError = "Refresh failed"
    /\ ~gridLoading
    /\ pending = {}


\* the currency with the given symbol, the first of the list when absent
Preferred(l, sym) ==
    IF \E i \in 1..Len(l) : l[i].symbol = sym
    THEN l[CHOOSE i \in 1..Len(l) : l[i].symbol = sym]
    ELSE l[1]

\* the defaults of a line item under the list l: USD to RON at USD's sell price
HasDefaults(row, l) ==
    /\ row.clientCurrencyId = Preferred(l, T_USD).id
    /\ row.targetCurrencyId = Preferred(l, T_RON).id
    /\ Number(row.exchangeRate) = Preferred(l, T_USD).sellPrice

\* C13: once a non-empty currency list is loaded, a line item with no source,
\* target or rate set gets the currency with symbol "USD" as source and the
\* one with symbol "RON" as target, each falling back to the first currency
\* of the list when that symbol is absent, and its rate is the source
\* currency's sell price; add-row gives the new line item the same defaults.
C13_DefaultPairing ==
    [][/\ (formOp' = "loadOk" /\ Len(list') > 0) =>
             /\ Len(exchanges') = Len(exchanges)
             /\ \A i \in 1..Len(exchanges) :
                   (/\ exchanges[i].clientCurrencyId = ""
                    /\ exchanges[i].targetCurrencyId = ""
                    /\ exchanges[i].exchangeRate = <<>>)
                       => HasDefaults(exchanges'[i], list')
       /\ formOp' = "addExchange" =>
             /\ Len(list) > 0
             /\ HasDefaults(exchanges'[Len(exchanges')], list)
             /\ exchanges'[Len(exchanges')].clientAmount = <<>>
      ]_vars

\* USD sells at 4.5: the line item seeded with USD to RON at rate 4.5 has
\* amount 100 typed and shows 450.00
C13_Witness ==
    /\ formOp = "clientAmount"
    /\ Len(list) = 2
    /\ exchanges[1].clientCurrencyId = "id-usd"
    /\ exchanges[1].targetCurrencyId = "id-ron"
    /\ exchanges[1].exchangeRate = <<"4", ".", "5">>
    /\ exchanges[1].clientAmount = <<"1", "0", "0">>
    /\ exchanges[1].convertedAmount = <<"4", "5", "0", ".", "0", "0">>


\* C14: the seeding that runs when the currency list becomes available fills
\* only the source, target and rate fields that are still unset: a source
\* currency, target currency, rate or amount already populated before the
\* list arrived has the same value after seeding.
C14_SeedKeepsInput ==
    [][formOp' = "loadOk" =>
          /\ Len(exchanges') = Len(exchanges)
          /\ \A i \in 1..Len(exchanges) :
                LET x == exchanges[i]
                    y == exchanges'[i]
                IN  /\ y.id = x.id
                    /\ y.clientAmount = x.clientAmount
                    /\ x.exchangeRate # <<>> => y.exchangeRate = x.exchangeRate
                    /\ x.clientCurrencyId # "" => y.clientCurrencyId = x.clientCurrencyId
                    /\ x.targetCurrencyId # "" => y.targetCurrencyId = x.targetCurrencyId
      ]_vars

\* the list has just arrived on a line item with amount 100 and rate 0.25
\* typed beforehand: both are kept, the source is seeded
C14_Witness ==
    /\ formOp = "loadOk"
    /\ Len(list) = 2
    /\ exchanges[1].clientAmount = <<"1", "0", "0">>
    /\ exchanges[1].exchangeRate = <<"0", ".", "2", "5">>
    /\ exchanges[1].clientCurrencyId = "id-usd"
    /\ exchanges[1].convertedAmount = <<"2", "5", ".", "0", "0">>

\* C16: changing the amount or the rate of line item X changes, besides the
\* edited field itself, only X's converted amount: X's id, source currency,
\* target currency and the other of amount and rate are unchanged, and every
\* other line item is unchanged.
C16_AmountRateFrame ==
    [][formOp' \in {"clientAmount", "exchangeRate"} =>
          /\ Len(exchanges') = Len(exchanges)
          /\ \E i \in 1..Len(exchanges) :
                LET x == exchanges[i]
                    y == exchanges'[i]
                IN  /\ y.id = x.id
                    /\ y.clientCurrencyId = x.clientCurrencyId
                    /\ y.targetCurrencyId = x.targetCurrencyId
                    /\ formOp' = "clientAmount" => y.exchangeRate = x.exchangeRate
                    /\ formOp' = "exchangeRate" => y.clientAmount = x.clientAmount
                    /\ \A j \in 1..Len(exchanges) : j # i => exchanges'[j] = exchanges[j]
      ]_vars

\* the rate of the second of two line items has just been set to 0.25: its
\* amount 100 is kept and it shows 25.00, next to a first item with amount
\* 100 at rate 4.5
C16_Witness ==
    /\ formOp = "exchangeRate"
    /\ Len(exchanges) = 2
    /\ exchanges[1].clientAmount = <<"1", "0", "0">>
    /\ exchanges[1].exchangeRate = <<"4", ".", "5">>
    /\ exchanges[1].convertedAmount = <<"4", "5", "0", ".", "0", "0">>
    /\ exchanges[2].clientAmount = <<"1", "0", "0">>
    /\ exchanges[2].exchangeRate = <<"0", ".", "2", "5">>
    /\ exchanges[2].convertedAmount = <<"2", "5", ".", "0", "0">>
    /\ exchanges[2].clientCurrencyId = "id-usd"


\* the converted amount response row i provides, Null when the response has
\* no rows list, no row i, or row i has no converted amount
Provided(data, i) ==
    IF /\ "rows" \in DOMAIN data
       /\ i <= Len(data.rows)
       /\ "convertedAmount" \in DOMAIN data.rows[i]
    THEN data.rows[i].convertedAmount
    ELSE Null

\* C15: a submission never adds, removes or reorders line items and never
\* changes a line item's id, amount, rate, source or target: on a failed or
\* non-success response no line item changes at all, and on a success
\* response carrying a rows list the line item at position i takes the
\* converted amount of response row i when that row provides one and keeps
\* its own converted amount otherwise.
C15_SubmitFrame ==
    [][/\ formOp' \in {"handleSubmit", "submitFailed"} => exchanges' = exchanges
       /\ formOp' = "submitOk" =>
             /\ Len(exchanges') = Len(exchanges)
             /\ \A i \in 1..Len(exchanges) :
                   LET x == exchanges[i]
                       y == exchanges'[i]
                   IN  /\ y.id = x.id
                       /\ y.clientAmount = x.clientAmount
                       /\ y.exchangeRate = x.exchangeRate
                       /\ y.clientCurrencyId = x.clientCurrencyId
                       /\ y.targetCurrencyId = x.targetCurrencyId
                       /\ y.convertedAmount =
                              IF Provided(answered', i) = Null THEN x.convertedAmount
                              ELSE Provided(answered', i)
      ]_vars

\* a response whose first row carries 9.99 and whose second row carries no
\* converted amount has just been merged into two line items: the first
\* shows 9.99, the second keeps its 450.00
C15_Witness ==
    /\ formOp = "submitOk"
    /\ answered = [rows |-> <<Recalc, Echo>>]
    /\ Len(exchanges) = 2
    /\ exchanges[1].convertedAmount = <<"9", ".", "9", "9">>
    /\ exchanges[2].clientAmount = <<"1", "0", "0">>
    /\ exchanges[2].convertedAmount = <<"4", "5", "0", ".", "0", "0">>


\* C17: the Login Shell can be switched between the sign-in and the sign-up
\* layout by user interaction: in every state some control of the page
\* changes the layout; the name field is rendered only in sign-up and the
\* forgot-password link only in sign-in, the title and the button label
\* follow the layout, and no handler, submit included, issues a network
\* request.
C17_LayoutsSwitchable ==
    /\ ("name" \in RenderedInputs) <=> ~isLogin
    /\ ForgotLink <=> isLogin
    /\ (Title = "Welcome Back" /\ SubmitLabel = "Sign In") <=> isLogin
    /\ (Title = "Create Account" /\ SubmitLabel = "Create Account") <=> ~isLogin
    /\ loginRequests = 0
    /\ ENABLED (LoginNext /\ isLogin' # isLogin)


\* a list request, issued on mount or by Refresh, is in flight
ListInFlight == \E req \in pending : req.kind \in {"mount", "refetch"}

\* C18: the loading indicator is shown (loading is true) in every state in
\* which a list request, issued on mount or by Refresh, is still in flight,
\* including when several list requests overlap.
C18_LoadingWhileListing == ListInFlight => gridLoading

\* C19: in every reachable state the edited-row id and the edit draft are
\* either both absent or both present.
C19_EditPair == (editingId = Nil) <=> (editDraft = Null)

\* a Refresh has just replaced the rows while the Euro row is in edit mode:
\* id and draft are both still set
C19_Witness ==
    /\ gridOp = "listOk"
    /\ editingId = "a"
    /\ editDraft # Null
    /\ editDraft.name = T_Euro

\* C20: when a save request for row A resolves successfully, edit mode is
\* left only for A: when the row in edit mode at that moment is a different
\* row B, B's edit mode and B's draft are still in place after the response
\* is applied.
C20_SaveLeavesOnlyItsRow ==
    [][gridOp' = "updateOk" =>
          \E req \in pending \ pending' :
              /\ req.kind = "update"
              /\ (editingId # Nil /\ editingId # req.id) =>
                     UNCHANGED <<editingId, editDraft>>
      ]_vars


\* C21: whenever the grid is in edit mode the edited-row id names a row that
\* is present in the rows, under every interleaving of start edit with delete
\* responses and list responses that were in flight or are issued afterwards.
C21_EditedRowPresent ==
    editingId # Nil => \E i \in 1..Len(rows) : rows[i].id = editingId


====
